---------------------------- MODULE Spec2Model ----------------------------
(***************************************************************************)
(* Model of src/uri/uri.ts: the scheme fixer, the room sanitizer, the      *)
(* standard URI parser, the meeting URI parser, the URL object stringifier *)
(* and the toURLString dispatcher.                                         *)
(*                                                                         *)
(* A JavaScript string is a sequence of one-character strings.  The value  *)
(* undefined and a thrown TypeError are one-element sequences whose        *)
(* element is no character, so they differ from every string.              *)
(***************************************************************************)
EXTENDS Naturals, Integers, Sequences, FiniteSets, TLC

VARIABLES
    argType,      \* typeof (or class) of the argument handed to the module
    uri,          \* the argument when it is a string (or a URL's href)
    o,            \* the argument when it is a property bag
    lexicalThis,  \* what `this` evaluates to inside _standardURIToString
    pc,           \* which exported function has run
    ret,          \* the string (or undefined, or TypeError) last returned
    prev,         \* the value returned by the call before the last one
    obj,          \* the record returned by the last parser call
    parsed,       \* urlObjectToString: `url` as parsed at line 341
    url           \* urlObjectToString: `url` as it stands at line 441

vars == <<argType, uri, o, lexicalThis, pc, ret, prev, obj, parsed, url>>

-----------------------------------------------------------------------------
(* JavaScript values *)

Undefined == <<"undefined">>
TypeError == <<"TypeError">>

IsString(v) == v # Undefined /\ v # TypeError

\* JavaScript truthiness of a string-or-undefined value
Truthy(v) == v # Undefined /\ v # <<>>

\* a || b
OrElse(a, b) == IF Truthy(a) THEN a ELSE b

Lower == <<"a","b","c","d","e","f","g","h","i","j","k","l","m",
           "n","o","p","q","r","s","t","u","v","w","x","y","z">>
Upper == <<"A","B","C","D","E","F","G","H","I","J","K","L","M",
           "N","O","P","Q","R","S","T","U","V","W","X","Y","Z">>
Digits == {"0","1","2","3","4","5","6","7","8","9"}
Whitespace == {" ", "\t", "\n"}

Range(f) == { f[i] : i \in DOMAIN f }

toLowerCaseChar(c) ==
    IF c \in Range(Upper)
    THEN Lower[CHOOSE i \in DOMAIN Upper : Upper[i] = c]
    ELSE c

toLowerCase(s) == [i \in DOMAIN s |-> toLowerCaseChar(s[i])]

\* String.prototype.substring( a, b ) and substring( a ), 0-based
substring(s, a, b) == SubSeq(s, a + 1, b)
substringFrom(s, a) == SubSeq(s, a + 1, Len(s))

startsWith(s, p) == Len(p) <= Len(s) /\ SubSeq(s, 1, Len(p)) = p
endsWith(s, p) == Len(p) <= Len(s) /\ SubSeq(s, Len(s) - Len(p) + 1, Len(s)) = p

\* String.prototype.indexOf( p, from ): 0-based index, -1 when absent
indexOf(s, p, from) ==
    LET hits == { i \in from .. (Len(s) - Len(p)) : SubSeq(s, i + 1, i + Len(p)) = p }
    IN  IF hits = {} THEN -1 ELSE CHOOSE i \in hits : \A j \in hits : i <= j

\* String.prototype.lastIndexOf( p )
lastIndexOf(s, p) ==
    LET hits == { i \in 0 .. (Len(s) - Len(p)) : SubSeq(s, i + 1, i + Len(p)) = p }
    IN  IF hits = {} THEN -1 ELSE CHOOSE i \in hits : \A j \in hits : i >= j

\* s.replace( /[set]/g, '' )
RECURSIVE RemoveAll(_, _)
RemoveAll(s, set) ==
    IF s = <<>> THEN <<>>
    ELSE IF Head(s) \in set THEN RemoveAll(Tail(s), set)
    ELSE <<Head(s)>> \o RemoveAll(Tail(s), set)

-----------------------------------------------------------------------------
(* The pattern constants *)

\* the character class of _ROOM_EXCLUDE_PATTERN
_ROOM_EXCLUDE_PATTERN ==
    {":", "?", "#", "[", "]", "@", "!", "$", "&", "'", "(", ")", "*", "+",
     ",", ";", "=", ">", "<", "/", "\""}

\* [a-z] and [a-z0-9\.\+-] under the i flag
SchemeFirst(c) == c \in Range(Lower) \/ c \in Range(Upper)
SchemeRest(c) == SchemeFirst(c) \/ c \in Digits \/ c \in {".", "+", "-"}

\* the index at or after i (0-based) of the first character outside
\* [a-z0-9\.\+-]
RECURSIVE SchemeRun(_, _)
SchemeRun(s, i) ==
    IF i < Len(s) /\ SchemeRest(s[i + 1]) THEN SchemeRun(s, i + 1) ELSE i

\* ([a-z][a-z0-9\.\+-]*:) matched at index i: the index after the match,
\* -1 when it does not match
URI_PROTOCOL_PATTERN(s, i) ==
    IF i < Len(s) /\ SchemeFirst(s[i + 1])
    THEN LET j == SchemeRun(s, i + 1)
         IN  IF j < Len(s) /\ s[j + 1] = ":" THEN j + 1 ELSE -1
    ELSE -1

\* ^(URI_PROTOCOL_PATTERN)+ from index i, the group having last matched
\* at index g: <<start of the last repetition, lastIndex>>
RECURSIVE ProtocolsExec(_, _, _)
ProtocolsExec(s, g, i) ==
    LET j == URI_PROTOCOL_PATTERN(s, i)
    IN  IF j = -1 THEN <<g, i>> ELSE ProtocolsExec(s, i, j)

\* the index after the run of characters from i that are not in stop
RECURSIVE RunUntil(_, _, _)
RunUntil(s, i, stop) ==
    IF i < Len(s) /\ s[i + 1] \notin stop THEN RunUntil(s, i + 1, stop) ELSE i

\* ^(//[^/?#]+): lastIndex, -1 when it does not match
_URI_AUTHORITY_PATTERN(s) ==
    IF startsWith(s, <<"/", "/">>)
    THEN LET j == RunUntil(s, 2, {"/", "?", "#"})
         IN  IF j > 2 THEN j ELSE -1
    ELSE -1

\* ^([^?#]*): lastIndex (it always matches)
_URI_PATH_PATTERN(s) == RunUntil(s, 0, {"?", "#"})

-----------------------------------------------------------------------------
(* _fixRoom *)

_fixRoom(room) ==
    IF Truthy(room) THEN RemoveAll(room, _ROOM_EXCLUDE_PATTERN) ELSE room

-----------------------------------------------------------------------------
(* _fixURIStringScheme *)

http == <<"h","t","t","p",":">>
https == <<"h","t","t","p","s",":">>

\* a scheme fixer that keeps only the first of several chained schemes
FixFirstSchemeOnly(s) ==
    LET lastIndex == URI_PROTOCOL_PATTERN(s, 0)
    IN  IF lastIndex = -1 THEN s
        ELSE LET match == toLowerCase(substring(s, 0, lastIndex))
                 protocol == IF match # http /\ match # https THEN https ELSE match
                 rest == substringFrom(s, lastIndex)
             IN  IF startsWith(rest, <<"/", "/">>) THEN protocol \o rest ELSE rest

_fixURIStringScheme(s) ==
    LET m == ProtocolsExec(s, 0, 0)
        lastIndex == m[2]
    IN  IF lastIndex = 0 THEN s
        ELSE LET match == toLowerCase(substring(s, m[1], lastIndex))
                 protocol == IF match # http /\ match # https THEN https ELSE match
                 rest == substringFrom(s, lastIndex)
             IN  IF startsWith(rest, <<"/", "/">>) THEN protocol \o rest ELSE rest

-----------------------------------------------------------------------------
(* getLocationContextRoot *)

getLocationContextRoot(pathname) ==
    LET contextRootEndIndex == lastIndexOf(pathname, <<"/">>)
    IN  IF contextRootEndIndex = -1 THEN <<"/">>
        ELSE substring(pathname, 0, contextRootEndIndex + 1)

-----------------------------------------------------------------------------
(* The Uri record.  `defined` tells an object from undefined, so that      *)
(* `thiz || this` and a property read of undefined can be modelled; the    *)
(* optional properties hold Undefined until they are assigned.             *)

NoObject ==
    [defined |-> FALSE, protocol |-> Undefined, host |-> Undefined,
     hostname |-> Undefined, port |-> Undefined, pathname |-> Undefined,
     search |-> Undefined, hash |-> Undefined, contextRoot |-> Undefined,
     room |-> Undefined]

\* an object that has none of the Uri properties (the module's exports)
ModuleExports == [NoObject EXCEPT !.defined = TRUE]

\* lines 166-168: obj as created, no Uri property assigned yet
NewUri == [NoObject EXCEPT !.defined = TRUE]

-----------------------------------------------------------------------------
(* _standardURIToString *)

_standardURIToString(thiz, this) ==
    LET self == IF thiz.defined THEN thiz ELSE this
    IN  IF ~self.defined THEN TypeError
        ELSE (IF Truthy(self.protocol) THEN self.protocol ELSE <<>>)
             \o (IF Truthy(self.host) THEN <<"/", "/">> \o self.host ELSE <<>>)
             \o (IF Truthy(self.pathname) THEN self.pathname ELSE <<"/">>)
             \o (IF Truthy(self.search) THEN self.search ELSE <<>>)
             \o (IF Truthy(self.hash) THEN self.hash ELSE <<>>)

-----------------------------------------------------------------------------
(* parseStandardURIString *)

\* an authority split that keeps the user-info in host and hostname
AuthorityKeepingUserinfo(match1) ==
    LET authority1 == substringFrom(match1, 2)
        portBeginIndex == lastIndexOf(authority1, <<":">>)
    IN  [host |-> authority1,
         port |-> IF portBeginIndex # -1
                  THEN substringFrom(authority1, portBeginIndex + 1)
                  ELSE Undefined,
         hostname |-> IF portBeginIndex # -1
                      THEN substring(authority1, 0, portBeginIndex)
                      ELSE authority1]

\* lines 192-214: host, port and hostname out of match[ 1 ] = "//authority"
Authority(match1) ==
    LET authority0 == substringFrom(match1, 2)
        userinfoEndIndex == indexOf(authority0, <<"@">>, 0)
        authority1 == IF userinfoEndIndex # -1
                      THEN substringFrom(authority0, userinfoEndIndex + 1)
                      ELSE authority0
        portBeginIndex == lastIndexOf(authority1, <<":">>)
    IN  [host |-> authority1,
         port |-> IF portBeginIndex # -1
                  THEN substringFrom(authority1, portBeginIndex + 1)
                  ELSE Undefined,
         hostname |-> IF portBeginIndex # -1
                      THEN substring(authority1, 0, portBeginIndex)
                      ELSE authority1]

\* the record under construction and what is left of str
Scan(object, str) == [obj |-> object, str |-> str]

\* line 178
StripWhitespace(str) == RemoveAll(str, Whitespace)

\* lines 181-186
ProtocolStep(st) ==
    LET lastIndex == URI_PROTOCOL_PATTERN(st.str, 0)
    IN  IF lastIndex # -1
        THEN Scan([st.obj EXCEPT
                      !.protocol = toLowerCase(substring(st.str, 0, lastIndex))],
                  substringFrom(st.str, lastIndex))
        ELSE st

\* lines 189-215
AuthorityStep(st) ==
    LET lastIndex == _URI_AUTHORITY_PATTERN(st.str)
    IN  IF lastIndex # -1
        THEN Scan([st.obj EXCEPT
                      !.host = Authority(substring(st.str, 0, lastIndex)).host,
                      !.port = Authority(substring(st.str, 0, lastIndex)).port,
                      !.hostname =
                          Authority(substring(st.str, 0, lastIndex)).hostname],
                  substringFrom(st.str, lastIndex))
        ELSE st

\* a pathname that is left as it was matched
PathnameAsMatched(match1) == match1

\* lines 227-231: the pathname out of the matched path
Pathname(match1) ==
    IF match1 # <<>>
    THEN IF startsWith(match1, <<"/">>) THEN match1 ELSE <<"/">> \o match1
    ELSE <<"/">>

\* lines 218-232
PathnameStep(st) ==
    Scan([st.obj EXCEPT
             !.pathname = Pathname(substring(st.str, 0, _URI_PATH_PATTERN(st.str)))],
         substringFrom(st.str, _URI_PATH_PATTERN(st.str)))

\* lines 236-239
HashBeginIndex(str) ==
    IF indexOf(str, <<"#">>, 1) = -1 THEN Len(str) ELSE indexOf(str, <<"#">>, 1)

\* lines 235-245
QueryStep(st) ==
    IF startsWith(st.str, <<"?">>)
    THEN Scan([st.obj EXCEPT
                  !.search = substring(st.str, 0, HashBeginIndex(st.str))],
              substringFrom(st.str, HashBeginIndex(st.str)))
    ELSE Scan([st.obj EXCEPT !.search = <<>>], st.str)

\* line 248
FragmentStep(st) ==
    Scan([st.obj EXCEPT !.hash = IF startsWith(st.str, <<"#">>) THEN st.str ELSE <<>>],
         st.str)

parseStandardURIString(str) ==
    FragmentStep(
        QueryStep(
            PathnameStep(
                AuthorityStep(
                    ProtocolStep(
                        Scan(NewUri, StripWhitespace(str))))))).obj

-----------------------------------------------------------------------------
(* parseURIString, for a string argument *)

\* a pathname rewrite that drops the context root
RewriteWithoutRoot(pathname, contextRootEndIndex, room) ==
    IF Truthy(room) THEN room ELSE <<>>

\* lines 296-297: fixedRoom driven into pathname
RewritePathname(pathname, contextRootEndIndex, room) ==
    substring(pathname, 0, contextRootEndIndex + 1)
    \o (IF Truthy(room) THEN room ELSE <<>>)

\* line 286
Room(pathname, contextRootEndIndex) ==
    OrElse(substringFrom(pathname, contextRootEndIndex + 1), Undefined)

\* lines 288-299: obj.pathname, room being the room of line 286
FixedPathname(pathname, contextRootEndIndex, room) ==
    IF Truthy(room) /\ _fixRoom(room) # room
    THEN RewritePathname(pathname, contextRootEndIndex, _fixRoom(room))
    ELSE pathname

\* lines 278-300
MeetingURI(std) ==
    [std EXCEPT
        !.contextRoot = getLocationContextRoot(std.pathname),
        !.pathname = FixedPathname(std.pathname, lastIndexOf(std.pathname, <<"/">>),
                         Room(std.pathname, lastIndexOf(std.pathname, <<"/">>))),
        !.room = _fixRoom(Room(std.pathname, lastIndexOf(std.pathname, <<"/">>)))]

parseURIString(s) == MeetingURI(parseStandardURIString(_fixURIStringScheme(s)))

-----------------------------------------------------------------------------
(* _objectToURLParamsArray *)

\* an object of the property bag: `defined` tells it from undefined, and
\* entries lists its enumerable properties in for-in order
NoConfig == [defined |-> FALSE, entries |-> <<>>]
Config(entries) == [defined |-> TRUE, entries |-> entries]

\* a || b || c over objects
FirstDefined(a, b, c) == IF a.defined THEN a ELSE IF b.defined THEN b ELSE c

\* the property values: true, a string, and an object that refers to
\* itself, which JSON.stringify refuses with a TypeError
JsTrue == [t |-> "boolean", v |-> <<"t","r","u","e">>]
JsString(s) == [t |-> "string", v |-> s]
JsCyclic == [t |-> "cyclic", v |-> <<>>]

JSONstringify(value) ==
    CASE value.t = "boolean" -> value.v
      [] value.t = "string" -> <<"\"">> \o value.v \o <<"\"">>
      [] OTHER -> TypeError

\* encodeURIComponent: the unreserved characters stay, the others become
\* their percent code
Unreserved ==
    Range(Lower) \cup Range(Upper) \cup Digits
    \cup {"-", "_", ".", "!", "~", "*", "'", "(", ")"}

PercentCode(c) ==
    CASE c = "\"" -> <<"%","2","2">>
      [] c = " " -> <<"%","2","0">>
      [] c = "/" -> <<"%","2","F">>
      [] c = ":" -> <<"%","3","A">>
      [] c = "?" -> <<"%","3","F">>
      [] c = "#" -> <<"%","2","3">>
      [] c = "&" -> <<"%","2","6">>
      [] c = "=" -> <<"%","3","D">>
      [] c = "@" -> <<"%","4","0">>

RECURSIVE encodeURIComponent(_)
encodeURIComponent(s) ==
    IF s = <<>> THEN <<>>
    ELSE (IF Head(s) \in Unreserved THEN <<Head(s)>> ELSE PercentCode(Head(s)))
         \o encodeURIComponent(Tail(s))

\* the params array of an object (of {} when the object is undefined); a
\* property whose encoding throws is skipped
RECURSIVE ParamsOf(_)
ParamsOf(entries) ==
    IF entries = <<>> THEN <<>>
    ELSE LET e == Head(entries)
             json == JSONstringify(e.value)
         IN  (IF json = TypeError THEN <<>>
              ELSE << e.key \o <<"=">> \o encodeURIComponent(json) >>)
             \o ParamsOf(Tail(entries))

_objectToURLParamsArray(object) ==
    IF object.defined THEN ParamsOf(object.entries) ELSE <<>>

\* Array.prototype.join
RECURSIVE join(_, _)
join(array, sep) ==
    IF array = <<>> THEN <<>>
    ELSE IF Len(array) = 1 THEN array[1]
    ELSE array[1] \o sep \o join(Tail(array), sep)

-----------------------------------------------------------------------------
(* urlObjectToString *)

\* new URL( rel, base ).toString(), b being base as parsed: for a base
\* that is either an http(s) URL with an authority or no absolute URL at
\* all (a TypeError), and a relative reference without dot segments
Resolve(rel, b) ==
    IF ~(Truthy(b.protocol) /\ Truthy(b.host)) THEN TypeError
    ELSE IF URI_PROTOCOL_PATTERN(rel, 0) # -1 THEN rel
    ELSE IF startsWith(rel, <<"/","/">>) THEN b.protocol \o rel
    ELSE IF startsWith(rel, <<"/">>) THEN b.protocol \o <<"/","/">> \o b.host \o rel
    ELSE b.protocol \o <<"/","/">> \o b.host \o getLocationContextRoot(b.pathname)
         \o rel

URLJoin(rel, base) == Resolve(rel, parseStandardURIString(base))

\* lines 333-339: tmp
BaseString(bag) ==
    IF Truthy(bag.serverURL) /\ Truthy(bag.room)
    THEN URLJoin(bag.room, bag.serverURL)
    ELSE IF Truthy(bag.room) THEN bag.room
    ELSE OrElse(bag.url, <<>>)

\* lines 344-353: url.protocol
Protocol(u, bag) ==
    LET protocol == OrElse(bag.protocol, bag.scheme)
    IN  IF ~Truthy(u.protocol) /\ Truthy(protocol)
        THEN IF endsWith(protocol, <<":">>) THEN protocol ELSE protocol \o <<":">>
        ELSE u.protocol

\* lines 358-384: the record parsed from appLinkScheme and domain, NoObject
\* when the authority of url is not taken from the bag
DomainURL(u, bag) ==
    LET domain == OrElse(bag.domain, OrElse(bag.host, bag.hostname))
    IN  IF ~Truthy(u.host) /\ Truthy(domain) /\ Truthy(bag.appLinkScheme)
        THEN parseStandardURIString(
                 _fixURIStringScheme(bag.appLinkScheme \o <<"/", "/">> \o domain))
        ELSE NoObject

\* line 382: the local pathname after the authority step
TenantPathname(u, d) ==
    IF d.defined /\ u.pathname = <<"/">> /\ d.pathname # <<"/">>
    THEN d.pathname
    ELSE u.pathname

\* a room step that tests the local pathname instead of url.pathname
RoomPathnameByLocal(urlPathname, pathname, room) ==
    IF Truthy(room)
       /\ (endsWith(pathname, <<"/">>) \/ ~endsWith(pathname, <<"/">> \o room))
    THEN (IF endsWith(pathname, <<"/">>) THEN pathname ELSE pathname \o <<"/">>)
         \o room
    ELSE pathname

\* lines 391-396: the local pathname after the room step
RoomPathname(urlPathname, pathname, room) ==
    IF Truthy(room)
       /\ (endsWith(urlPathname, <<"/">>)
           \/ ~endsWith(urlPathname, <<"/">> \o room))
    THEN (IF endsWith(pathname, <<"/">>) THEN pathname ELSE pathname \o <<"/">>)
         \o room
    ELSE pathname

\* a jwt step that always puts a '&' in front of the parameter
JwtSearchAlwaysAmp(search, jwt) ==
    IF Truthy(jwt)
       /\ indexOf(search, <<"?","j","w","t","=">>, 0) = -1
       /\ indexOf(search, <<"&","j","w","t","=">>, 0) = -1
    THEN (IF startsWith(search, <<"?">>) THEN search ELSE <<"?">> \o search)
         \o <<"&">> \o <<"j","w","t","=">> \o jwt
    ELSE search

\* lines 405-415: url.search
JwtSearch(search, jwt) ==
    IF Truthy(jwt)
       /\ indexOf(search, <<"?","j","w","t","=">>, 0) = -1
       /\ indexOf(search, <<"&","j","w","t","=">>, 0) = -1
    THEN LET s1 == IF startsWith(search, <<"?">>) THEN search ELSE <<"?">> \o search
             s2 == IF Len(s1) = 1 THEN s1 ELSE s1 \o <<"&">>
         IN  s2 \o <<"j","w","t","=">> \o jwt
    ELSE search

\* lines 428-438: hash after one urlPrefix
HashWith(hash, urlPrefix, object) ==
    LET urlParamsArray == _objectToURLParamsArray(object)
        urlParamsString ==
            urlPrefix \o <<".">>
            \o join(urlParamsArray, <<"&">> \o urlPrefix \o <<".">>)
    IN  IF Len(urlParamsArray) # 0
        THEN IF Len(hash) # 0 THEN hash \o <<"&">> \o urlParamsString
             ELSE <<"#">> \o urlParamsString
        ELSE hash

\* lines 419-441: url.hash
Hash(hash, bag) ==
    HashWith(
        HashWith(
            HashWith(hash, <<"c","o","n","f","i","g">>,
                FirstDefined(bag.configOverwrite, bag.config, bag.configOverride)),
            <<"i","n","t","e","r","f","a","c","e","C","o","n","f","i","g">>,
            FirstDefined(bag.interfaceConfigOverwrite, bag.interfaceConfig,
                         bag.interfaceConfigOverride)),
        <<"d","e","v","i","c","e","s">>,
        FirstDefined(bag.devicesOverwrite, bag.devices, bag.devicesOverride))

\* line 341, NoObject when new URL threw
ParseBase(tmp) ==
    IF tmp = TypeError THEN NoObject
    ELSE parseStandardURIString(_fixURIStringScheme(tmp))

\* lines 333-341: url as parsed
ParsedURL(bag) == ParseBase(BaseString(bag))

\* lines 343-441: url in front of the return statement, u being url as
\* parsed and d the record parsed from the domain
Merge(u, d, bag) ==
    IF ~u.defined THEN NoObject
    ELSE [u EXCEPT
            !.protocol = Protocol(u, bag),
            !.host = IF d.defined /\ Truthy(d.host) THEN d.host ELSE u.host,
            !.hostname = IF d.defined /\ Truthy(d.host) THEN d.hostname
                         ELSE u.hostname,
            !.port = IF d.defined /\ Truthy(d.host) THEN d.port ELSE u.port,
            !.pathname = RoomPathname(u.pathname, TenantPathname(u, d),
                                      OrElse(bag.roomName, bag.room)),
            !.search = JwtSearch(u.search, bag.jwt),
            !.hash = Hash(u.hash, bag)]

MergeBag(u, bag) == Merge(u, DomainURL(u, bag), bag)

WorkingURL(bag) == MergeBag(ParsedURL(bag), bag)

\* receiver.toString( thiz ): the property is the arrow function
\* _standardURIToString (line 167), which does not see its receiver
CallToString(receiver, thiz, this) == _standardURIToString(thiz, this)

\* line 443, toString being handed no argument
Return(u, this) ==
    IF ~u.defined THEN TypeError
    ELSE IF CallToString(u, NoObject, this) = <<>> THEN Undefined
    ELSE CallToString(u, NoObject, this)

urlObjectToString(bag, this) == Return(WorkingURL(bag), this)

-----------------------------------------------------------------------------
(* toURLString *)

toURLString(type, href, bag, this) ==
    CASE type = "URL" -> href
      [] type = "object" -> urlObjectToString(bag, this)
      [] type = "string" -> href
      [] OTHER -> Undefined

-----------------------------------------------------------------------------
(* The arguments the functions are called with *)

\* the longest free-form input, in tokens
MaxTokens == 3

Tokens == {<<"a">>, <<"H">>, <<":">>, <<"/">>, <<"?">>, <<"#">>, <<"@">>, <<" ">>, <<"!">>}

RECURSIVE TokenStrings(_)
TokenStrings(n) ==
    IF n = 0 THEN {<<>>}
    ELSE LET shorter == TokenStrings(n - 1)
         IN  shorter \cup { t \o s : t \in Tokens, s \in shorter }

SchemeParts ==
    {<<>>, <<"h","t","t","p",":">>, <<"h","t","t","p","s",":">>, <<"a","p","p",":">>, <<"H","T","T","P","S",":">>, <<"a","p","p",":","h","t","t","p","s",":">>, <<" ","a","p","p",":">>,
     <<"o","r","g",".","j","i","t","s","i",".","m","e","e","t",":">>}
AuthorityParts ==
    {<<>>, <<"/","/","h">>, <<"/","/","h",":","1">>, <<"/","/","u","@","h">>, <<"/","/","u","@","v","@","h">>, <<"/","/","h",":","1",":","2">>, <<"/","/","u",":","p","@","h",":","1">>, <<"/","/">>}
PathParts ==
    {<<>>, <<"/">>, <<"/","r">>, <<"/","t","/","r">>, <<"/","!">>, <<"/","t","/","r","!">>, <<"r">>, <<"/","M","y",":","R","o","o","m","!">>}
QueryParts == {<<>>, <<"?">>, <<"?","q","=","1">>}
HashParts == {<<>>, <<"#">>, <<"#","f">>}

URIStrings ==
    { a \o b \o c \o d \o e :
        a \in SchemeParts, b \in AuthorityParts, c \in PathParts,
        d \in QueryParts, e \in HashParts }

Inputs == URIStrings \cup TokenStrings(MaxTokens)

Hrefs == {<<"h","t","t","p","s",":","/","/","h","/","r">>, <<"h","t","t","p","s",":","/","/","h","/","t","/","r","?","q","=","1","#","f">>}

EmptyBag ==
    [serverURL |-> Undefined, room |-> Undefined, url |-> Undefined,
     protocol |-> Undefined, scheme |-> Undefined, domain |-> Undefined,
     host |-> Undefined, hostname |-> Undefined, appLinkScheme |-> Undefined,
     roomName |-> Undefined, jwt |-> Undefined,
     configOverwrite |-> NoConfig, config |-> NoConfig,
     configOverride |-> NoConfig,
     interfaceConfigOverwrite |-> NoConfig, interfaceConfig |-> NoConfig,
     interfaceConfigOverride |-> NoConfig,
     devicesOverwrite |-> NoConfig, devices |-> NoConfig,
     devicesOverride |-> NoConfig]

\* bags about the base string, the protocol, the room and the jwt
BaseBags ==
    { [EmptyBag EXCEPT !.serverURL = a, !.room = b, !.url = c, !.roomName = d,
                       !.jwt = e, !.protocol = f, !.scheme = g] :
        a \in {Undefined, <<"h","t","t","p","s",":","/","/","h","/">>, <<"h","t","t","p","s",":","/","/","h","/","t","/">>, <<"h","t","t","p",":","/","/","h",":","1","/">>, <<"h">>},
        b \in {Undefined, <<"r">>, <<"t","e","a","m","-","s","y","n","c">>, <<"t","/","r">>, <<"r","?","q","=","1">>},
        c \in {Undefined, <<"h","t","t","p","s",":","/","/","h","/","r">>, <<"a","p","p",":","/","/","h","/","r","?","q","=","1","#","f">>, <<"h","t","t","p","s",":","/","/","h","/","?","j","w","t","=","x">>,
               <<"/","/","h","/","r","?","a","&","j","w","t","=","x">>, <<"r","?">>},
        d \in {Undefined, <<"r">>, <<"n">>},
        e \in {Undefined, <<>>, <<"a","b","c">>},
        f \in {Undefined, <<"h","t","t","p","s">>, <<"h","t","t","p",":">>},
        g \in {Undefined, <<"a","p","p">>} }

\* bags about the authority taken from domain, host or hostname
DomainBags ==
    { [EmptyBag EXCEPT !.url = a, !.domain = b, !.host = c, !.hostname = d,
                       !.appLinkScheme = e, !.roomName = f, !.room = g,
                       !.protocol = h] :
        a \in {Undefined, <<"/">>, <<"r">>, <<"h","t","t","p","s",":","/","/","h","/">>},
        b \in {Undefined, <<"h">>, <<"h","/","t">>, <<"h","/","t","/","r">>, <<"h",":","1","/","r">>},
        c \in {Undefined, <<"g">>},
        d \in {Undefined, <<"k","/","t">>},
        e \in {Undefined, <<"a","p","p",":">>, <<"h","t","t","p","s",":">>},
        f \in {Undefined, <<"r">>, <<"t">>},
        g \in {Undefined, <<"r">>},
        h \in {Undefined, <<"h","t","t","p","s">>} }

\* bags about the fragment
ConfigBags ==
    { [EmptyBag EXCEPT !.url = a, !.config = b, !.configOverwrite = c,
                       !.interfaceConfig = d, !.devicesOverride = e] :
        a \in {<<"r">>, <<"h","t","t","p","s",":","/","/","h","/","r","#","f">>},
        b \in {NoConfig, Config(<<>>),
               Config(<<[key |-> <<"s","t","a","r","t","W","i","t","h","A","u","d","i","o","M","u","t","e","d">>, value |-> JsTrue]>>),
               Config(<<[key |-> <<"a">>, value |-> JsCyclic],
                        [key |-> <<"b">>, value |-> JsString(<<"x"," ","y">>)],
                        [key |-> <<"c">>, value |-> JsTrue]>>)},
        c \in {NoConfig, Config(<<[key |-> <<"o">>, value |-> JsTrue]>>)},
        d \in {NoConfig, Config(<<[key |-> <<"i">>, value |-> JsString(<<"h","/","r">>)]>>)},
        e \in {NoConfig, Config(<<[key |-> <<"d">>, value |-> JsTrue]>>)} }

Bags == BaseBags \cup DomainBags \cup ConfigBags

-----------------------------------------------------------------------------
(* The state machine: one call of an exported function, and the calls that *)
(* take its result.                                                        *)

Init ==
    /\ lexicalThis \in {NoObject, ModuleExports}
    /\ \/ argType = "string" /\ uri \in Inputs /\ o = EmptyBag
       \/ argType = "object" /\ uri = Undefined /\ o \in Bags
       \/ argType \in {"undefined", "null", "number"} /\ uri = Undefined
          /\ o = EmptyBag
       \/ argType = "URL" /\ uri \in Hrefs /\ o = EmptyBag
    /\ pc = "start"
    /\ ret = Undefined
    /\ prev = Undefined
    /\ obj = NoObject
    /\ parsed = NoObject
    /\ url = NoObject

\* _fixURIStringScheme( uri )
FixScheme ==
    /\ pc = "start" /\ argType = "string"
    /\ ret' = _fixURIStringScheme(uri)
    /\ pc' = "fixed"
    /\ UNCHANGED <<argType, uri, o, lexicalThis, prev, obj, parsed, url>>

\* _fixURIStringScheme( ret ), ret being what the first call returned
FixSchemeAgain ==
    /\ pc = "fixed"
    /\ prev' = ret
    /\ ret' = _fixURIStringScheme(ret)
    /\ pc' = "fixedTwice"
    /\ UNCHANGED <<argType, uri, o, lexicalThis, obj, parsed, url>>

\* parseStandardURIString( uri )
ParseStandard ==
    /\ pc = "start" /\ argType = "string"
    /\ obj' = parseStandardURIString(uri)
    /\ pc' = "parsed"
    /\ UNCHANGED <<argType, uri, o, lexicalThis, ret, prev, parsed, url>>

\* obj.toString()
ToStringNoArgument ==
    /\ pc = "parsed"
    /\ ret' = CallToString(obj, NoObject, lexicalThis)
    /\ pc' = "stringified"
    /\ UNCHANGED <<argType, uri, o, lexicalThis, prev, obj, parsed, url>>

\* obj.toString( obj )
ToStringOfRecord ==
    /\ pc = "parsed"
    /\ ret' = CallToString(obj, obj, lexicalThis)
    /\ pc' = "rendered"
    /\ UNCHANGED <<argType, uri, o, lexicalThis, prev, obj, parsed, url>>

\* parseURIString( uri ), uri being a string or undefined
ParseURI ==
    /\ pc = "start" /\ argType \in {"string", "undefined"}
    /\ obj' = IF argType = "string" THEN parseURIString(uri) ELSE NoObject
    /\ pc' = "meeting"
    /\ UNCHANGED <<argType, uri, o, lexicalThis, ret, prev, parsed, url>>

\* urlObjectToString( o )
UrlObjectToString ==
    /\ pc = "start" /\ argType = "object"
    /\ parsed' = ParsedURL(o)
    /\ url' = WorkingURL(o)
    /\ ret' = urlObjectToString(o, lexicalThis)
    /\ pc' = "urlObject"
    /\ UNCHANGED <<argType, uri, o, lexicalThis, prev, obj>>

\* toURLString( obj )
ToURLString ==
    /\ pc = "start"
    /\ ret' = toURLString(argType, uri, o, lexicalThis)
    /\ pc' = "urlString"
    /\ UNCHANGED <<argType, uri, o, lexicalThis, prev, obj, parsed, url>>

Next ==
    \/ FixScheme
    \/ FixSchemeAgain
    \/ ParseStandard
    \/ ToStringNoArgument
    \/ ToStringOfRecord
    \/ ParseURI
    \/ UrlObjectToString
    \/ ToURLString

Spec == Init /\ [][Next]_vars

-----------------------------------------------------------------------------
(* Properties *)

Count(s, c) == Cardinality({ i \in DOMAIN s : s[i] = c })
Contains(s, p) == indexOf(s, p, 0) # -1

\* the text between "//" and the next '/', '?' or '#' of the input, and ""
\* when the input has no authority
AuthorityText(s) ==
    LET rest == ProtocolStep(Scan(NewUri, StripWhitespace(s))).str
        lastIndex == _URI_AUTHORITY_PATTERN(rest)
    IN  IF lastIndex = -1 THEN <<>> ELSE substring(rest, 2, lastIndex)

\* C1: parseStandardURIString returns a record for every string; its
\* pathname is a non-empty string that starts with '/', and its search and
\* hash are strings, empty when the input has no '?' and no '#'.
C1_ParserTotal ==
    pc = "parsed" =>
        /\ obj.defined
        /\ IsString(obj.pathname)
        /\ obj.pathname # <<>>
        /\ startsWith(obj.pathname, <<"/">>)
        /\ IsString(obj.search)
        /\ IsString(obj.hash)
        /\ (Count(uri, "?") = 0 => obj.search = <<>>)
        /\ (Count(uri, "#") = 0 => obj.hash = <<>>)

\* a relative path without a leading slash was parsed
C1_Witness ==
    /\ pc = "parsed"
    /\ uri # <<>>
    /\ ~startsWith(StripWhitespace(uri), <<"/">>)
    /\ obj.protocol = Undefined
    /\ Len(obj.pathname) > 1
    /\ obj.search # <<>>

\* C2: fixing the scheme of an already fixed string changes nothing.
C2_FixIdempotent == pc = "fixedTwice" => ret = prev

\* several chained schemes in front of an authority were fixed twice
C2_Witness ==
    /\ pc = "fixedTwice"
    /\ ProtocolsExec(uri, 0, 0)[1] > 0
    /\ prev # uri
    /\ startsWith(prev, <<"h","t","t","p","s",":","/","/">>)

\* canonical strings: a lower-case http(s) scheme, "//" and an authority
\* without user-info, a path, a query and a fragment
CanonicalURIs ==
    { a \o b \o c \o d \o e :
        a \in {<<"h","t","t","p",":">>, <<"h","t","t","p","s",":">>}, b \in {<<"/","/","h">>, <<"/","/","h",":","1">>},
        c \in {<<"/","r">>, <<"/","t","/","r">>}, d \in {<<"?","q","=","1">>},
        e \in {<<"#","f">>} }

\* C3: toString() without an argument, called on the record parsed from a
\* canonical string, returns that string.
C3_RoundTrip == (pc = "stringified" /\ uri \in CanonicalURIs) => ret = uri

\* C4 as claimed: host is hostname[:port], and hostname holds no ':' and
\* no '@', for every authority.
C4_Original ==
    (pc = "parsed" /\ obj.host # Undefined) =>
        /\ obj.host = IF obj.port = Undefined THEN obj.hostname
                      ELSE obj.hostname \o <<":">> \o obj.port
        /\ Count(obj.hostname, ":") = 0
        /\ Count(obj.hostname, "@") = 0

\* C4 as amended: host is hostname[:port] for every authority; hostname
\* holds no '@' when the authority holds at most one '@', and no ':' when
\* host (the authority without its user-info) holds at most one ':'.
C4_HostHostnamePort ==
    (pc = "parsed" /\ obj.host # Undefined) =>
        /\ obj.host = IF obj.port = Undefined THEN obj.hostname
                      ELSE obj.hostname \o <<":">> \o obj.port
        /\ (Count(AuthorityText(uri), "@") <= 1 => Count(obj.hostname, "@") = 0)
        /\ (Count(obj.host, ":") <= 1 => Count(obj.hostname, ":") = 0)

\* an authority with user-info, a password and a port was parsed
C4_Witness ==
    /\ pc = "parsed"
    /\ Count(AuthorityText(uri), "@") = 1
    /\ Count(AuthorityText(uri), ":") = 2
    /\ obj.port # Undefined
    /\ obj.hostname # <<>>

\* C5: in the record parseURIString returns for a string, contextRoot ends
\* with '/', and pathname is contextRoot followed by room (by nothing when
\* room is absent).
C5_PathnameConsistent ==
    (pc = "meeting" /\ argType = "string") =>
        /\ endsWith(obj.contextRoot, <<"/">>)
        /\ obj.pathname = obj.contextRoot
                          \o (IF obj.room = Undefined THEN <<>> ELSE obj.room)

\* the sanitizer changed a room below a context root of several segments
C5_Witness ==
    /\ pc = "meeting"
    /\ argType = "string"
    /\ Truthy(obj.room)
    /\ Len(obj.contextRoot) > 1
    /\ obj.pathname # parseStandardURIString(_fixURIStringScheme(uri)).pathname

\* C6: the room parseURIString returns is undefined or a non-empty string
\* without excluded characters.
C6_RoomClean ==
    (pc = "meeting" /\ argType = "string") =>
        \/ obj.room = Undefined
        \/ /\ obj.room # <<>>
           /\ \A i \in DOMAIN obj.room : obj.room[i] \notin _ROOM_EXCLUDE_PATTERN

\* a room name without delimiter characters
PlainRoom(r) ==
    /\ Truthy(r)
    /\ \A i \in DOMAIN r :
          r[i] \in Range(Lower) \cup Range(Upper) \cup Digits \cup {"-"}

\* an absolute http(s) URL that ends in '/'
ServerURL(s) ==
    /\ Truthy(s)
    /\ startsWith(s, <<"h","t","t","p",":","/","/">>) \/ startsWith(s, <<"h","t","t","p","s",":","/","/">>)
    /\ endsWith(s, <<"/">>)
    /\ Len(s) > Len(<<"h","t","t","p","s",":","/","/">>) + 1

\* C7: for a bag of only serverURL and room, urlObjectToString returns
\* serverURL followed by room.
C7_ServerURLAndRoom ==
    ( /\ pc = "urlObject"
      /\ o = [EmptyBag EXCEPT !.serverURL = o.serverURL, !.room = o.room]
      /\ ServerURL(o.serverURL)
      /\ PlainRoom(o.room) )
    => ret = o.serverURL \o o.room

\* C8: the search of url after the jwt step, out of the search as parsed.
C8_JwtSearch ==
    (pc = "urlObject" /\ parsed.defined) =>
        url.search =
            IF Truthy(o.jwt) /\ ~Contains(parsed.search, <<"?","j","w","t","=">>)
               /\ ~Contains(parsed.search, <<"&","j","w","t","=">>)
            THEN IF parsed.search \in {<<>>, <<"?">>} THEN <<"?","j","w","t","=">> \o o.jwt
                 ELSE parsed.search \o <<"&","j","w","t","=">> \o o.jwt
            ELSE parsed.search

\* a jwt was appended to a search that held another parameter
C8_Witness ==
    /\ pc = "urlObject"
    /\ parsed.defined
    /\ Truthy(o.jwt)
    /\ Len(parsed.search) > 1
    /\ url.search # parsed.search

\* the pathname in effect after the authority step
WorkingPathname == TenantPathname(parsed, DomainURL(parsed, o))

\* the pathname with the room behind it
Appended(pathname, r) ==
    (IF endsWith(pathname, <<"/">>) THEN pathname ELSE pathname \o <<"/">>) \o r

\* C9 as claimed: the room is appended exactly when the working pathname
\* ends in '/' or does not end with '/' + room.
C9_Original ==
    (pc = "urlObject" /\ parsed.defined) =>
        LET r == OrElse(o.roomName, o.room)
        IN  url.pathname =
                IF Truthy(r)
                   /\ (endsWith(WorkingPathname, <<"/">>)
                       \/ ~endsWith(WorkingPathname, <<"/">> \o r))
                THEN Appended(WorkingPathname, r)
                ELSE WorkingPathname

\* C9 as amended: the room is appended to the working pathname exactly
\* when the pathname parsed from the base string ends in '/' or does not
\* end with '/' + room.
C9_RoomAppended ==
    (pc = "urlObject" /\ parsed.defined) =>
        LET r == OrElse(o.roomName, o.room)
        IN  url.pathname =
                IF Truthy(r)
                   /\ (endsWith(parsed.pathname, <<"/">>)
                       \/ ~endsWith(parsed.pathname, <<"/">> \o r))
                THEN Appended(WorkingPathname, r)
                ELSE WorkingPathname

\* a tenant path that ends with '/' + room was adopted from domain
C9_Witness ==
    /\ pc = "urlObject"
    /\ parsed.defined
    /\ Truthy(o.roomName)
    /\ WorkingPathname # parsed.pathname
    /\ endsWith(WorkingPathname, <<"/">> \o o.roomName)
    /\ url.pathname = WorkingPathname \o <<"/">> \o o.roomName

\* C10: the protocol parseURIString returns is unset, 'http:' or 'https:'.
C10_WellKnownProtocol ==
    (pc = "meeting" /\ argType = "string") =>
        obj.protocol \in {Undefined, http, https}

=============================================================================
